---- MODULE Spec2Model ----
(***************************************************************************)
(* Model of the RAG query pipeline of karam-hackrx-project:                *)
(*   dynamic.py  process_document_and_query, parse_and_validate_response   *)
(*   dynamic.py  process_multiple_queries                                  *)
(*   app.py      main, load_and_split_documents, create_and_store_embeddings*)
(*                                                                         *)
(* A model text is a sequence of symbols.  "{" and "}" are the two brace   *)
(* characters; every other symbol is a run of non-brace characters: "x" is *)
(* a run of prose, the symbols of MemberToks are runs of JSON members      *)
(* ("key": value pairs with their separators).  Python dicts are functions *)
(* from keys to values; numbers in [0,1] are integers in hundredths.       *)
(***************************************************************************)
EXTENDS Integers, Sequences, FiniteSets, TLC

VARIABLES
    ptext,      \* parser harness: the raw model text handed to the parser
    pthr,       \* parser harness: confidence_threshold (hundredths)
    pfn,        \* parser harness: which parser ran ("none", "dynamic", "app")
    pout,       \* parser harness: the dict the parser returned
    pc,         \* process_document_and_query: position in the function
    doc_len,    \* uploaded_file: length of the document text
    query,      \* the query argument
    opts,       \* kwargs after the .get defaults (lines 68-72)
    tmp_exists, \* the temporary .pdf file exists on disk
    docs,       \* loader.load() result: 0 = not loaded, 1 = pages loaded
    all_chunks, \* what text_splitter.split_documents(docs) produced
    chunks,     \* the local `chunks` after the max_chunks limit
    index,      \* chunks held by the Chroma vectorstore
    retriever_k,\* search_kwargs k of the retriever
    response_content, \* response_from_llm.content
    parsed_json,\* result of parse_and_validate_response
    result,     \* the dict returned to the caller
    history,    \* processor.processing_history
    stages,     \* history variable: pipeline stages entered, in order
    failed_at,  \* history variable: stage whose step failed ("" = none)
    retrieved_docs, \* result of retriever.invoke(query) at line 169
    outcome,    \* "running", "returned" (a dict came back) or "raised"
    bpc,        \* process_multiple_queries: position in the function
    bqueries,   \* process_multiple_queries: the queries argument
    bkwargs,    \* process_multiple_queries: uploaded_file and **kwargs
    results,    \* process_multiple_queries: the results list
    index_builds, \* history variable: vectorstores built during the batch
    apc,        \* app.main: position in the function
    data_docs,  \* the PDF files under DATA_PATH
    db_exists,  \* os.path.exists(DB_CHROMA_PATH)
    db_docs,    \* documents whose chunks the persisted Chroma store holds
    held_chunks,\* chunks load_and_split_documents returned to a caller
    app_loaded, \* history variable: what main's load step loaded
    app_store,  \* documents in the store main's retriever queries
    app_result  \* the dict main returned

pvars == <<ptext, pthr, pfn, pout>>
dvars == <<pc, doc_len, query, opts, tmp_exists, docs, all_chunks, chunks,
           index, retriever_k, response_content, parsed_json, result,
           history, stages, failed_at, retrieved_docs, outcome>>
bvars == <<bpc, bqueries, bkwargs, results, index_builds>>
avars == <<apc, data_docs, db_exists, db_docs, held_chunks, app_loaded,
           app_store, app_result>>
vars == <<pvars, dvars, bvars, avars>>

----------------------------------------------------------------------------
(* Bounds of the model *)

MaxLen == 5       \* longest model text given to the parser harness
MaxRespLen == 3   \* longest model text the LLM returns inside the pipeline
MaxDocLen == 6    \* longest document text
MaxQueries == 2   \* most queries in one process_multiple_queries call

----------------------------------------------------------------------------
(* Texts and JSON *)

MemberToks == {"ans", "lo", "hi", "nan", "err"}
Alphabet == {"{", "}", "x"} \cup MemberToks

\* every run of JSON members: those texts are enumerated over, and one whose
\* key is a key the response assembly writes itself
AllMemberToks == MemberToks \cup {"src"}

EmptyDict == <<>>

\* dict | other, the right operand winning (also {**a, **b} and item stores)
Merge(a, b) ==
    [k \in (DOMAIN a) \cup (DOMAIN b) |-> IF k \in DOMAIN b THEN b[k] ELSE a[k]]

\* The members each run of JSON members decodes to.
Members(tok) ==
    CASE tok = "ans" -> [decision |-> "yes", amount |-> "5000",
                         justification |-> "covered by 2.1",
                         source_clause |-> "2.1"]
      [] tok = "lo"  -> [confidence_score |-> "0.4"]
      [] tok = "hi"  -> [confidence_score |-> "0.9"]
      [] tok = "nan" -> [confidence_score |-> "high"]
      [] tok = "err" -> [error |-> "none found"]
      [] tok = "src" -> [source_documents |-> <<7>>]

TextsUpTo(n) == UNION {[1..m -> Alphabet] : m \in 0..n}

\* str.find(c): 0-based index of the first occurrence, -1 if none
Find(s, c) ==
    IF \E i \in 1..Len(s) : s[i] = c
    THEN (CHOOSE i \in 1..Len(s) : s[i] = c /\ \A j \in 1..(i-1) : s[j] # c) - 1
    ELSE -1

\* str.rfind(c): 0-based index of the last occurrence, -1 if none
RFind(s, c) ==
    IF \E i \in 1..Len(s) : s[i] = c
    THEN (CHOOSE i \in 1..Len(s) : s[i] = c /\ \A j \in (i+1)..Len(s) : s[j] # c) - 1
    ELSE -1

\* Python's s[a:b]: negative indices count from the end, both are clamped
Clamp(i, n) == IF i < 0 THEN (IF i + n < 0 THEN 0 ELSE i + n)
               ELSE (IF i > n THEN n ELSE i)
Slice(s, a, b) == SubSeq(s, Clamp(a, Len(s)) + 1, Clamp(b, Len(s)))

\* json.loads on a text: an object is "{", runs of members, "}" and nothing
\* else; a later duplicate key replaces an earlier one.
RECURSIVE DecodeMembers(_)
DecodeMembers(s) ==
    IF s = <<>> THEN EmptyDict
    ELSE Merge(DecodeMembers(SubSeq(s, 1, Len(s) - 1)), Members(s[Len(s)]))

JsonValid(s) ==
    /\ Len(s) >= 2
    /\ s[1] = "{"
    /\ s[Len(s)] = "}"
    /\ \A i \in 2..(Len(s) - 1) : s[i] \in AllMemberToks

JsonLoads(s) ==
    IF JsonValid(s)
    THEN [ok |-> TRUE, obj |-> DecodeMembers(SubSeq(s, 2, Len(s) - 1))]
    ELSE [ok |-> FALSE, obj |-> EmptyDict]

\* json_string = response_content[find('{') : rfind('}') + 1]
JsonEndFirst(s) == Find(s, "}") + 1
JsonEndNoPlus(s) == RFind(s, "}")
JsonStart(s) == Find(s, "{")
JsonEnd(s) == RFind(s, "}") + 1
JsonString(s) == Slice(s, JsonStart(s), JsonEnd(s))

\* float(confidence): the value in hundredths, or not ok (ValueError/TypeError)
Float(v) ==
    CASE v = "0.0" -> [ok |-> TRUE, val |-> 0]
      [] v = "0.4" -> [ok |-> TRUE, val |-> 40]
      [] v = "0.9" -> [ok |-> TRUE, val |-> 90]
      [] OTHER     -> [ok |-> FALSE, val |-> 0]

\* f"Low confidence score ({confidence_float:.2f}). Results may be unreliable."
LowWarning(c) ==
    CASE c = 0  -> "Low confidence score (0.00). Results may be unreliable."
      [] c = 40 -> "Low confidence score (0.40). Results may be unreliable."
      [] c = 90 -> "Low confidence score (0.90). Results may be unreliable."

DictGet(d, k, default) == IF k \in DOMAIN d THEN d[k] ELSE default

\* The annotation with a missing confidence_score left alone
ConfidenceWarningNoDefault(obj, threshold) ==
    IF "confidence_score" \notin DOMAIN obj THEN EmptyDict
    ELSE LET f == Float(obj["confidence_score"])
         IN  IF f.ok
             THEN IF f.val < threshold
                  THEN [warning |-> LowWarning(f.val)]
                  ELSE EmptyDict
             ELSE [warning |-> "Unable to parse confidence score."]

\* The confidence annotation of parse_and_validate_response (lines 214-221)
ConfidenceWarning(obj, threshold) ==
    LET confidence == DictGet(obj, "confidence_score", "0.0")
        f == Float(confidence)
    IN  IF f.ok
        THEN IF f.val < threshold
             THEN [warning |-> LowWarning(f.val)]
             ELSE EmptyDict
        ELSE [warning |-> "Unable to parse confidence score."]

\* dynamic.py parse_and_validate_response
parse_and_validate_response(text, threshold) ==
    LET r == JsonLoads(JsonString(text))
    IN  IF r.ok
        THEN Merge(Merge(r.obj, ConfidenceWarning(r.obj, threshold)),
                   [validation_status |-> "success"])
        ELSE [error |-> "Failed to decode JSON from the LLM response.",
              raw_response |-> text,
              validation_status |-> "failed",
              error_details |-> "JSONDecodeError"]

\* app.py main, lines 114-126: the parsing step, given what the retriever
\* returns for the second lookup
main_parse(text, source_docs) ==
    LET r == JsonLoads(JsonString(text))
    IN  IF r.ok
        THEN Merge(r.obj, [source_documents |-> source_docs])
        ELSE [error |-> "Failed to decode JSON from the LLM response.",
              raw_response |-> text]

----------------------------------------------------------------------------
(* Parser harness: the two parsers applied to every bounded text *)

Thresholds == {30, 70}
RetrievedSets == {<<>>, <<1>>}

ParseInit ==
    /\ ptext \in TextsUpTo(MaxLen)
    /\ pthr \in Thresholds
    /\ pfn = "none"
    /\ pout = EmptyDict

ParseDynamic ==
    /\ pfn = "none"
    /\ pfn' = "dynamic"
    /\ pout' = parse_and_validate_response(ptext, pthr)
    /\ UNCHANGED <<ptext, pthr>>

ParseApp ==
    /\ pfn = "none"
    /\ \E rd \in RetrievedSets :
          /\ pfn' = "app"
          /\ pout' = main_parse(ptext, rd)
    /\ UNCHANGED <<ptext, pthr>>

----------------------------------------------------------------------------
(* dynamic.py process_document_and_query *)

DefaultMaxChunks == 10
RetrieverK == 5

Queries == {"Is knee surgery covered?"}
ChunkConfigs == {<<1, 0>>, <<2, 1>>, <<1, 2>>}   \* <<chunk_size, chunk_overlap>>
MaxChunksValues == {0, 2, DefaultMaxChunks}       \* 0: falsy (None or 0)
Replies == TextsUpTo(MaxRespLen)

Min(a, b) == IF a < b THEN a ELSE b
CeilDiv(a, b) == (a + b - 1) \div b

\* RecursiveCharacterTextSplitter: rejects chunk_overlap > chunk_size
SplitterConfigOk(size, overlap) == size > 0 /\ overlap >= 0 /\ overlap <= size

\* split_documents on a text of n characters without separators: windows of
\* `size` characters, each starting size - overlap after the previous one.
\* A chunk is the range <<first, last>> of the characters it holds.
NumChunks(n, size, overlap) ==
    IF n = 0 THEN 0
    ELSE IF n <= size THEN 1
    ELSE CeilDiv(n - size, size - overlap) + 1

split_documents(n, size, overlap) ==
    [i \in 1..NumChunks(n, size, overlap) |->
        <<(i - 1) * (size - overlap) + 1,
          Min((i - 1) * (size - overlap) + size, n)>>]

\* lines 104-105: if max_chunks and len(chunks) > max_chunks: chunks[:max_chunks]
LimitChunksOneLess(cs, max_chunks) ==
    IF max_chunks # 0 /\ Len(cs) > max_chunks
    THEN Slice(cs, 0, max_chunks - 1)
    ELSE cs
LimitChunks(cs, max_chunks) ==
    IF max_chunks # 0 /\ Len(cs) > max_chunks
    THEN Slice(cs, 0, max_chunks)
    ELSE cs

\* line 115: search_kwargs={'k': min(5, len(chunks))}
ClampKNone(n) == RetrieverK
ClampK(n) == Min(RetrieverK, n)

\* What the retriever can return from an index of n chunks with search k:
\* Min(k, n) distinct chunks (their positions in the index, ascending)
RECURSIVE SetToSeq(_)
SetToSeq(S) ==
    IF S = {} THEN <<>>
    ELSE LET m == CHOOSE x \in S : \A y \in S : x <= y
         IN  <<m>> \o SetToSeq(S \ {m})

Retrievals(n, k) ==
    {SetToSeq(S) : S \in {T \in SUBSET (1..n) : Cardinality(T) = Min(k, n)}}

\* the except branch, lines 198-204
ErrorResult(q) ==
    [error |-> "Processing failed", timestamp |-> "now", query |-> q]

DInit ==
    /\ pc = "idle"
    /\ doc_len = 0
    /\ query = ""
    /\ opts = EmptyDict
    /\ tmp_exists = FALSE
    /\ docs = 0
    /\ all_chunks = <<>>
    /\ chunks = <<>>
    /\ index = <<>>
    /\ retriever_k = 0
    /\ response_content = <<>>
    /\ parsed_json = EmptyDict
    /\ result = EmptyDict
    /\ history = <<>>
    /\ stages = <<>>
    /\ failed_at = ""
    /\ retrieved_docs = <<>>
    /\ outcome = "idle"

\* The except branch taken from stage `stage`: every local is dropped, the
\* failure dict is returned.
Fail(stage) ==
    /\ pc' = "done"
    /\ failed_at' = stage
    /\ result' = ErrorResult(query)
    /\ outcome' = "returned"

\* The call: arguments bound, kwargs defaults applied (lines 51, 68-72)
Call ==
    /\ pc = "idle"
    /\ \E n \in 0..MaxDocLen, q \in Queries, cfg \in ChunkConfigs,
          mc \in MaxChunksValues, thr \in Thresholds, im \in BOOLEAN :
          /\ doc_len' = n
          /\ query' = q
          /\ opts' = [include_metadata |-> im, confidence_threshold |-> thr,
                      max_chunks |-> mc, chunk_size |-> cfg[1],
                      chunk_overlap |-> cfg[2]]
    /\ pc' = "construct"
    /\ outcome' = "running"
    /\ UNCHANGED <<tmp_exists, docs, all_chunks, chunks, index, retriever_k,
                   response_content, parsed_json, result, history, stages,
                   failed_at, retrieved_docs>>

\* Construct with one processor shared by all calls
ConstructShared ==
    /\ pc = "construct"
    /\ pc' = "tmpfile"
    /\ UNCHANGED <<doc_len, query, opts, tmp_exists, docs, all_chunks, chunks,
                   index, retriever_k, response_content, parsed_json, result,
                   stages, retrieved_docs, failed_at, outcome, history>>

\* line 64: processor = DocumentProcessor(), before the try statement
Construct ==
    /\ pc = "construct"
    /\ \E ok \in BOOLEAN :
          IF ok
          THEN /\ pc' = "tmpfile"
               /\ history' = <<>>
               /\ UNCHANGED <<failed_at, outcome>>
          ELSE /\ pc' = "done"
               /\ failed_at' = "Constructing"
               /\ outcome' = "raised"
               /\ UNCHANGED history
    /\ UNCHANGED <<doc_len, query, opts, tmp_exists, docs, all_chunks, chunks,
                   index, retriever_k, response_content, parsed_json, result,
                   stages, retrieved_docs>>

\* lines 78-80: NamedTemporaryFile(delete=False) and the write
WriteTmp ==
    /\ pc = "tmpfile"
    /\ stages' = Append(stages, "Loading")
    /\ \E r \in {"ok", "create_failed", "write_failed"} :
          /\ tmp_exists' = (r # "create_failed")
          /\ IF r = "ok"
             THEN pc' = "load" /\ UNCHANGED <<failed_at, result, outcome>>
             ELSE Fail("Loading")
    /\ UNCHANGED <<doc_len, query, opts, docs, all_chunks, chunks, index,
                   retriever_k, response_content, parsed_json, history,
                   retrieved_docs>>

\* lines 83-92: PyPDFLoader(tmp_file_path).load()
Load ==
    /\ pc = "load"
    /\ \E ok \in BOOLEAN :
          IF ok
          THEN /\ pc' = "split"
               /\ docs' = 1
               /\ UNCHANGED <<failed_at, result, outcome>>
          ELSE /\ Fail("Loading")
               /\ UNCHANGED docs
    /\ UNCHANGED <<doc_len, query, opts, tmp_exists, all_chunks, chunks, index,
                   retriever_k, response_content, parsed_json, history, stages,
                   retrieved_docs>>

\* lines 96-106: the splitter and the max_chunks limit
Split ==
    /\ pc = "split"
    /\ stages' = Append(stages, "Chunking")
    /\ IF SplitterConfigOk(opts.chunk_size, opts.chunk_overlap)
       THEN LET cs == split_documents(doc_len, opts.chunk_size, opts.chunk_overlap)
            IN  /\ all_chunks' = cs
                /\ chunks' = LimitChunks(cs, opts.max_chunks)
                /\ pc' = "index"
                /\ UNCHANGED <<failed_at, result, outcome>>
       ELSE /\ Fail("Chunking")
            /\ UNCHANGED <<all_chunks, chunks>>
    /\ UNCHANGED <<doc_len, query, opts, tmp_exists, docs, index, retriever_k,
                   response_content, parsed_json, history, retrieved_docs>>

\* lines 110-117: Chroma.from_documents, as_retriever, os.remove
BuildIndex ==
    /\ pc = "index"
    /\ stages' = Append(stages, "Indexing")
    /\ \E ok \in BOOLEAN :
          IF ok
          THEN /\ index' = chunks
               /\ retriever_k' = ClampK(Len(chunks))
               /\ tmp_exists' = FALSE
               /\ pc' = "retrieve"
               /\ UNCHANGED <<failed_at, result, outcome>>
          ELSE /\ Fail("Indexing")
               /\ UNCHANGED <<index, retriever_k, tmp_exists>>
    /\ UNCHANGED <<doc_len, query, opts, docs, all_chunks, chunks,
                   response_content, parsed_json, history, retrieved_docs>>

\* Retrieve with the lookup repeated before the model is called
RetrieveRetried ==
    /\ pc = "retrieve"
    /\ stages' = stages \o <<"Retrieving", "Retrieving">>
    /\ pc' = "generate"
    /\ UNCHANGED <<doc_len, query, opts, tmp_exists, docs, all_chunks, chunks,
                   index, retriever_k, response_content, parsed_json, history,
                   retrieved_docs, failed_at, result, outcome>>

\* line 162, first half of rag_chain.invoke: retriever | format_docs_enhanced
Retrieve ==
    /\ pc = "retrieve"
    /\ stages' = Append(stages, "Retrieving")
    /\ \E ok \in BOOLEAN :
          IF ok
          THEN pc' = "generate" /\ UNCHANGED <<failed_at, result, outcome>>
          ELSE Fail("Retrieving")
    /\ UNCHANGED <<doc_len, query, opts, tmp_exists, docs, all_chunks, chunks,
                   index, retriever_k, response_content, parsed_json, history,
                   retrieved_docs>>

\* lines 162-163, second half of rag_chain.invoke: prompt | processor.llm
GenerateFrom(replies) ==
    /\ pc = "generate"
    /\ stages' = Append(stages, "Generating")
    /\ \/ \E text \in replies :
            /\ response_content' = text
            /\ pc' = "parse"
            /\ UNCHANGED <<failed_at, result, outcome>>
       \/ /\ Fail("Generating")
          /\ UNCHANGED response_content
    /\ UNCHANGED <<doc_len, query, opts, tmp_exists, docs, all_chunks, chunks,
                   index, retriever_k, parsed_json, history, retrieved_docs>>

Generate == GenerateFrom(Replies)

\* line 166: the parser returns its failure as a dict, control goes on
Parse ==
    /\ pc = "parse"
    /\ stages' = Append(stages, "Parsing")
    /\ parsed_json' = parse_and_validate_response(response_content,
                                                  opts.confidence_threshold)
    /\ failed_at' = IF JsonLoads(JsonString(response_content)).ok
                    THEN failed_at ELSE "Parsing"
    /\ pc' = "sources"
    /\ UNCHANGED <<doc_len, query, opts, tmp_exists, docs, all_chunks, chunks,
                   index, retriever_k, response_content, result, history,
                   retrieved_docs, outcome>>

\* line 169: retrieved_docs = retriever.invoke(query)
RetrieveSources ==
    /\ pc = "sources"
    /\ stages' = Append(stages, "Retrieving")
    /\ \/ \E rd \in Retrievals(Len(index), retriever_k) :
            /\ retrieved_docs' = rd
            /\ pc' = "assemble"
            /\ UNCHANGED <<failed_at, result, outcome>>
       \/ /\ Fail("Retrieving")
          /\ UNCHANGED retrieved_docs
    /\ UNCHANGED <<doc_len, query, opts, tmp_exists, docs, all_chunks, chunks,
                   index, retriever_k, response_content, parsed_json, history>>

\* the assembly with the decoded object spread last
EnhancedResponseAnswerLast ==
    Merge([source_documents |->
               IF opts.include_metadata THEN retrieved_docs ELSE <<>>,
           document_metadata |->
               IF opts.include_metadata
               THEN [filename |-> "policy.pdf", file_size |-> doc_len,
                     total_pages |-> docs, processing_timestamp |-> "start"]
               ELSE EmptyDict,
           processing_statistics |->
               [processing_time_seconds |-> 0,
                chunks_processed |-> Len(chunks),
                chunks_retrieved |-> Len(retrieved_docs),
                confidence_threshold |-> opts.confidence_threshold],
           query_metadata |->
               [original_query |-> query, query_length |-> 1,
                timestamp |-> "now"]],
          parsed_json)

\* lines 172-187
EnhancedResponse ==
    Merge(parsed_json,
          [source_documents |->
               IF opts.include_metadata THEN retrieved_docs ELSE <<>>,
           document_metadata |->
               IF opts.include_metadata
               THEN [filename |-> "policy.pdf", file_size |-> doc_len,
                     total_pages |-> docs, processing_timestamp |-> "start"]
               ELSE EmptyDict,
           processing_statistics |->
               [processing_time_seconds |-> 0,
                chunks_processed |-> Len(chunks),
                chunks_retrieved |-> Len(retrieved_docs),
                confidence_threshold |-> opts.confidence_threshold],
           query_metadata |->
               [original_query |-> query, query_length |-> 1,
                timestamp |-> "now"]])

\* lines 170-196: assemble, append to the processing history, return
Assemble ==
    /\ pc = "assemble"
    /\ result' = EnhancedResponse
    /\ history' = Append(history, [query |-> query, result |-> EnhancedResponse,
                                   timestamp |-> "start"])
    /\ pc' = "done"
    /\ outcome' = "returned"
    /\ UNCHANGED <<doc_len, query, opts, tmp_exists, docs, all_chunks, chunks,
                   index, retriever_k, response_content, parsed_json, stages,
                   failed_at, retrieved_docs>>

----------------------------------------------------------------------------
(* dynamic.py process_multiple_queries *)

BatchQueryTexts == {"q1", "q2"}
BatchQueries == UNION {[1..m -> BatchQueryTexts] : m \in 0..MaxQueries}
BatchKwargs ==
    [doc_len : {0, 3}, include_metadata : BOOLEAN,
     confidence_threshold : {70}, max_chunks : {2, DefaultMaxChunks},
     chunk_size : {1}, chunk_overlap : {0}]
BatchReplies ==
    {<<"x">>, <<"{", "ans", "}">>, <<"{", "err", "}">>,
     <<"x", "{", "ans", "src", "}">>}

\* lines 235-237: the call and results = []
BatchStart ==
    /\ bpc = "idle"
    /\ \E qs \in BatchQueries, kw \in BatchKwargs :
          /\ bqueries' = qs
          /\ bkwargs' = kw
    /\ results' = <<>>
    /\ index_builds' = 0
    /\ bpc' = "loop"
    /\ UNCHANGED dvars

\* lines 238-240: the next query enters process_document_and_query with the
\* same uploaded_file and kwargs; the callee's locals start afresh (the
\* processor of the previous call is unreachable, line 64 makes the next one)
BatchCall ==
    /\ bpc = "loop"
    /\ pc = "idle"
    /\ Len(results) < Len(bqueries)
    /\ query' = bqueries[Len(results) + 1]
    /\ doc_len' = bkwargs.doc_len
    /\ opts' = [include_metadata |-> bkwargs.include_metadata,
                confidence_threshold |-> bkwargs.confidence_threshold,
                max_chunks |-> bkwargs.max_chunks,
                chunk_size |-> bkwargs.chunk_size,
                chunk_overlap |-> bkwargs.chunk_overlap]
    /\ pc' = "construct"
    /\ outcome' = "running"
    /\ tmp_exists' = FALSE
    /\ docs' = 0
    /\ all_chunks' = <<>>
    /\ chunks' = <<>>
    /\ index' = <<>>
    /\ retriever_k' = 0
    /\ response_content' = <<>>
    /\ parsed_json' = EmptyDict
    /\ result' = EmptyDict
    /\ stages' = <<>>
    /\ failed_at' = ""
    /\ retrieved_docs' = <<>>
    /\ UNCHANGED <<history, bvars>>

\* line 241: results.append(result)
BatchAppend ==
    /\ bpc = "loop"
    /\ pc = "done"
    /\ outcome = "returned"
    /\ results' = Append(results, result)
    /\ pc' = "idle"
    /\ UNCHANGED <<doc_len, query, opts, tmp_exists, docs, all_chunks, chunks,
                   index, retriever_k, response_content, parsed_json, result,
                   history, stages, failed_at, retrieved_docs, outcome,
                   bpc, bqueries, bkwargs, index_builds>>

\* an exception out of process_document_and_query leaves the loop and the
\* function: there is no try in process_multiple_queries
BatchRaise ==
    /\ bpc = "loop"
    /\ pc = "done"
    /\ outcome = "raised"
    /\ bpc' = "raised"
    /\ pc' = "idle"
    /\ UNCHANGED <<doc_len, query, opts, tmp_exists, docs, all_chunks, chunks,
                   index, retriever_k, response_content, parsed_json, result,
                   history, stages, failed_at, retrieved_docs, outcome,
                   bqueries, bkwargs, results, index_builds>>

\* line 242: return results
BatchReturn ==
    /\ bpc = "loop"
    /\ pc = "idle"
    /\ Len(results) = Len(bqueries)
    /\ bpc' = "returned"
    /\ UNCHANGED <<dvars, bqueries, bkwargs, results, index_builds>>

BatchGenerate == GenerateFrom(BatchReplies)

----------------------------------------------------------------------------
(* app.py: the persisted store under DB_CHROMA_PATH and main *)

\* A PDF file under DATA_PATH is named by its content: replacing a file gives
\* another document.  The chunks of a document are named by the document.
DocIds == {1, 2, 3}
AppReplies == {<<"x">>, <<"{", "ans", "}">>}

\* the None that load_and_split_documents returns when the store exists
NoChunks == [none |-> TRUE, docs |-> {}]

\* a file is added to, removed from or replaced under documents/
ChangeDocuments ==
    /\ apc = "idle"
    /\ \E ds \in SUBSET DocIds :
          /\ ds # data_docs
          /\ data_docs' = ds
    /\ UNCHANGED <<apc, db_exists, db_docs, held_chunks, app_loaded,
                   app_store, app_result>>

\* lines 20-38, called on its own: the chunks go to the caller
load_and_split_documents ==
    /\ apc = "idle"
    /\ held_chunks' = IF db_exists THEN NoChunks
                      ELSE [none |-> FALSE, docs |-> data_docs]
    /\ UNCHANGED <<apc, data_docs, db_exists, db_docs, app_loaded, app_store,
                   app_result>>

\* lines 40-55, called with chunks a caller holds
create_and_store_embeddings ==
    /\ apc = "idle"
    /\ IF held_chunks.none
       THEN UNCHANGED <<db_exists, db_docs>>
       ELSE /\ db_exists' = TRUE
            /\ db_docs' = db_docs \cup held_chunks.docs
    /\ UNCHANGED <<apc, data_docs, held_chunks, app_loaded, app_store,
                   app_result>>

\* line 63: main calls load_and_split_documents() and drops what it returns
MainLoad ==
    /\ apc = "idle"
    /\ app_loaded' = [skipped |-> db_exists,
                      docs |-> IF db_exists THEN {} ELSE data_docs]
    /\ app_store' = {}
    /\ app_result' = EmptyDict
    /\ \E ok \in BOOLEAN : apc' = IF ok \/ db_exists THEN "open" ELSE "raised"
    /\ UNCHANGED <<data_docs, db_exists, db_docs, held_chunks>>

\* lines 68-75: Chroma(persist_directory=DB_CHROMA_PATH) opens the store, and
\* creates an empty one when there is none
MainOpen ==
    /\ apc = "open"
    /\ db_exists' = TRUE
    /\ app_store' = db_docs
    /\ apc' = "answer"
    /\ UNCHANGED <<data_docs, db_docs, held_chunks, app_loaded, app_result>>

\* lines 102-126: the chain, the parsing step and the second lookup; an
\* exception of the chain is not caught
MainAnswer ==
    /\ apc = "answer"
    /\ \/ \E text \in AppReplies :
            /\ app_result' = main_parse(text, SetToSeq(app_store))
            /\ apc' = "done"
       \/ /\ apc' = "raised"
          /\ UNCHANGED app_result
    /\ UNCHANGED <<data_docs, db_exists, db_docs, held_chunks, app_loaded,
                   app_store>>

\* main is over; the next request may come
MainEnd ==
    /\ apc \in {"done", "raised"}
    /\ apc' = "idle"
    /\ UNCHANGED <<data_docs, db_exists, db_docs, held_chunks, app_loaded,
                   app_store, app_result>>

----------------------------------------------------------------------------
(* The parts of the state a specification does not use stay as they start *)

BIdle ==
    /\ bpc = "idle"
    /\ bqueries = <<>>
    /\ bkwargs = EmptyDict
    /\ results = <<>>
    /\ index_builds = 0

AIdle ==
    /\ apc = "idle"
    /\ data_docs = {}
    /\ db_exists = FALSE
    /\ db_docs = {}
    /\ held_chunks = NoChunks
    /\ app_loaded = [skipped |-> FALSE, docs |-> {}]
    /\ app_store = {}
    /\ app_result = EmptyDict

----------------------------------------------------------------------------
(* Specifications *)

\* The pipeline; the parser harness stays idle.
PIdle == ptext = <<>> /\ pthr = 70 /\ pfn = "none" /\ pout = EmptyDict

Init == DInit /\ PIdle /\ BIdle /\ AIdle

Next ==
    \/ (Call /\ UNCHANGED <<pvars, bvars, avars>>)
    \/ (Construct /\ UNCHANGED <<pvars, bvars, avars>>)
    \/ (WriteTmp /\ UNCHANGED <<pvars, bvars, avars>>)
    \/ (Load /\ UNCHANGED <<pvars, bvars, avars>>)
    \/ (Split /\ UNCHANGED <<pvars, bvars, avars>>)
    \/ (BuildIndex /\ UNCHANGED <<pvars, bvars, avars>>)
    \/ (Retrieve /\ UNCHANGED <<pvars, bvars, avars>>)
    \/ (Generate /\ UNCHANGED <<pvars, bvars, avars>>)
    \/ (Parse /\ UNCHANGED <<pvars, bvars, avars>>)
    \/ (RetrieveSources /\ UNCHANGED <<pvars, bvars, avars>>)
    \/ (Assemble /\ UNCHANGED <<pvars, bvars, avars>>)

Spec == Init /\ [][Next]_vars

\* The parsers alone, on every text of at most MaxLen symbols.
InitParse == ParseInit /\ DInit /\ BIdle /\ AIdle

NextParse ==
    \/ (ParseDynamic /\ UNCHANGED <<dvars, bvars, avars>>)
    \/ (ParseApp /\ UNCHANGED <<dvars, bvars, avars>>)

SpecParse == InitParse /\ [][NextParse]_vars

\* process_multiple_queries driving process_document_and_query.
InitBatch == DInit /\ PIdle /\ BIdle /\ AIdle

NextBatch ==
    \/ (BatchStart /\ UNCHANGED <<pvars, avars>>)
    \/ (BatchCall /\ UNCHANGED <<pvars, avars>>)
    \/ (BatchAppend /\ UNCHANGED <<pvars, avars>>)
    \/ (BatchRaise /\ UNCHANGED <<pvars, avars>>)
    \/ (BatchReturn /\ UNCHANGED <<pvars, avars>>)
    \/ (Construct /\ UNCHANGED <<pvars, bvars, avars>>)
    \/ (WriteTmp /\ UNCHANGED <<pvars, bvars, avars>>)
    \/ (Load /\ UNCHANGED <<pvars, bvars, avars>>)
    \/ (Split /\ UNCHANGED <<pvars, bvars, avars>>)
    \/ (BuildIndex /\ index_builds' = index_builds + 1
           /\ UNCHANGED <<pvars, bpc, bqueries, bkwargs, results, avars>>)
    \/ (Retrieve /\ UNCHANGED <<pvars, bvars, avars>>)
    \/ (BatchGenerate /\ UNCHANGED <<pvars, bvars, avars>>)
    \/ (Parse /\ UNCHANGED <<pvars, bvars, avars>>)
    \/ (RetrieveSources /\ UNCHANGED <<pvars, bvars, avars>>)
    \/ (Assemble /\ UNCHANGED <<pvars, bvars, avars>>)

SpecBatch == InitBatch /\ [][NextBatch]_vars

\* app.py: main, the two store functions and the documents directory.
InitApp == DInit /\ PIdle /\ BIdle /\ AIdle

NextApp ==
    \/ (ChangeDocuments /\ UNCHANGED <<pvars, dvars, bvars>>)
    \/ (load_and_split_documents /\ UNCHANGED <<pvars, dvars, bvars>>)
    \/ (create_and_store_embeddings /\ UNCHANGED <<pvars, dvars, bvars>>)
    \/ (MainLoad /\ UNCHANGED <<pvars, dvars, bvars>>)
    \/ (MainOpen /\ UNCHANGED <<pvars, dvars, bvars>>)
    \/ (MainAnswer /\ UNCHANGED <<pvars, dvars, bvars>>)
    \/ (MainEnd /\ UNCHANGED <<pvars, dvars, bvars>>)

SpecApp == InitApp /\ [][NextApp]_vars

----------------------------------------------------------------------------
(* Vocabulary of the properties *)

Braces == {"{", "}"}
RequiredFields == {"decision", "amount", "justification", "source_clause"}
Decisions == {"yes", "no", "partially"}

\* t is brace-free prose, then one JSON object t[i..j], then brace-free prose
ProseObjectProse(t, i, j) ==
    /\ i < j
    /\ t[i] = "{"
    /\ t[j] = "}"
    /\ \A a \in 1..(i - 1) : t[a] \notin Braces
    /\ \A b \in (j + 1)..Len(t) : t[b] \notin Braces
    /\ \A m \in (i + 1)..(j - 1) : t[m] \in MemberToks

\* the symbols from the first "{" to the last "}" of t form one JSON object
Decodable(t) ==
    \E i, j \in 1..Len(t) :
        /\ i < j
        /\ t[i] = "{" /\ \A a \in 1..(i - 1) : t[a] # "{"
        /\ t[j] = "}" /\ \A b \in (j + 1)..Len(t) : t[b] # "}"
        /\ \A m \in (i + 1)..(j - 1) : t[m] \in MemberToks

\* the keys a parser adds itself to a decoded object
Annotations(fn) ==
    IF fn = "dynamic" THEN {"warning", "validation_status"}
    ELSE {"source_documents"}

\* a failure result: it has the error key and surfaces the raw text
IsFailure(out) == "error" \in DOMAIN out /\ "raw_response" \in DOMAIN out

Covers(ix, n) ==
    \A p \in 1..n : \E i \in 1..Len(ix) : ix[i][1] <= p /\ p <= ix[i][2]

\* the vectorstore of the call has been built (lines 110-115 completed)
IndexBuilt ==
    \/ pc \in {"retrieve", "generate", "parse", "sources", "assemble"}
    \/ (pc = "done" /\ Len(stages) > 3)

\* the call returned enhanced_response with no stage having failed
Done == pc = "done" /\ outcome = "returned" /\ failed_at = ""

----------------------------------------------------------------------------
(* Properties *)

\* C1: for brace-free prose, one JSON object, brace-free prose, either parser
\* decodes the object and returns its fields with their values; the result has
\* no key besides the object's and the parser's own annotations, whatever the
\* prose is.
C1_ProseIgnored ==
    pfn # "none" =>
      \A i, j \in 1..Len(ptext) :
        ProseObjectProse(ptext, i, j) =>
          LET obj == DecodeMembers(SubSeq(ptext, i + 1, j - 1))
          IN  /\ "raw_response" \notin DOMAIN pout
              /\ \A k \in (DOMAIN obj) \ Annotations(pfn) :
                    k \in DOMAIN pout /\ pout[k] = obj[k]
              /\ DOMAIN pout \subseteq (DOMAIN obj) \cup Annotations(pfn)

C1_Witness ==
    /\ pfn = "dynamic"
    /\ ptext = <<"x", "{", "ans", "}", "x">>
    /\ "decision" \in DOMAIN pout
    /\ pout["decision"] = "yes"

\* C2: when no JSON object can be decoded from the text, either parser returns
\* a failure dict whose raw_response is the original text, symbol for symbol.
C2_FailureKeepsRawText ==
    (pfn # "none" /\ ~Decodable(ptext)) =>
        /\ IsFailure(pout)
        /\ pout["raw_response"] = ptext

C2_Witness ==
    /\ pfn = "app"
    /\ ptext = <<"{", "}", "{", "}">>
    /\ IsFailure(pout)

\* C3: a failure in any step of process_document_and_query ends in a returned
\* failure dict with an 'error' key, never in an exception at the caller.
C3_NoExceptionEscapes ==
    (pc = "done" /\ failed_at # "") =>
        (outcome = "returned" /\ "error" \in DOMAIN result)

\* C4: whenever the call has returned, the temporary file is gone.
C4_TmpFileRemoved == (outcome = "returned") => ~tmp_exists

\* C5 as stated: the index holds every chunk the chunker produced and so
\* covers the whole document text, for every max_chunks.
C5_IndexHoldsEveryChunk ==
    IndexBuilt => (index = all_chunks /\ Covers(index, doc_len))

\* C5 amended: the index holds every chunk, and covers the document, when
\* max_chunks is 0/None or not below the number of chunks; otherwise it holds
\* exactly chunks[:max_chunks]; before a completed build there is no index.
C5_IndexHoldsLimitedChunks ==
    LET n == Len(all_chunks)
        mc == opts.max_chunks
        kept == IF mc > 0 THEN mc ELSE IF n + mc > 0 THEN n + mc ELSE 0
    IN  /\ ~IndexBuilt => index = <<>>
        /\ (IndexBuilt /\ (mc = 0 \/ n <= mc)) =>
              (index = all_chunks /\ Covers(index, doc_len))
        /\ (IndexBuilt /\ mc # 0 /\ n > mc) =>
              (Len(index) = kept /\ \A i \in 1..kept : index[i] = all_chunks[i])

C5_Witness ==
    /\ IndexBuilt
    /\ opts.max_chunks = 2
    /\ Len(all_chunks) = 3
    /\ Len(index) = 2

\* C6: once a stage has failed the run is over: nothing runs after it, and the
\* result carries no statistics or query metadata and no history is written;
\* in particular a Parsing failure is the last stage entered.
C6_FailureGoesToFailed ==
    failed_at # "" =>
        /\ pc = "done"
        /\ history = <<>>
        /\ "processing_statistics" \notin DOMAIN result
        /\ "query_metadata" \notin DOMAIN result
        /\ (failed_at = "Parsing" => stages[Len(stages)] = "Parsing")

\* C7 as stated: a run that ends in Done entered the six stages exactly once
\* each, in order.
C7_StagesOnceInOrder ==
    Done => stages = <<"Loading", "Chunking", "Indexing", "Retrieving",
                       "Generating", "Parsing">>

\* C7 amended: a run that ends in Done entered Loading, Chunking, Indexing,
\* Retrieving, Generating, Parsing once each in this order, none skipped, and
\* then Retrieving a second time, after Parsing.
C7_StagesInOrderThenRetrieving ==
    Done => stages = <<"Loading", "Chunking", "Indexing", "Retrieving",
                       "Generating", "Parsing", "Retrieving">>

C7_Witness == Done /\ Len(stages) = 7 /\ "query_metadata" \in DOMAIN result

\* C8: a decoded object that lacks a required field is a parse failure, never
\* a successful answer.
C8_MissingFieldRejected ==
    (/\ pfn # "none"
     /\ Decodable(ptext)
     /\ ~(RequiredFields \subseteq DOMAIN JsonLoads(JsonString(ptext)).obj)) =>
        IsFailure(pout)

\* C9: every result returned without an 'error' key has a decision among
\* yes/no/partially and the keys amount, justification and source_clause.
C9_SuccessIsAnswerRecord ==
    (outcome = "returned" /\ "error" \notin DOMAIN result) =>
        /\ RequiredFields \subseteq DOMAIN result
        /\ result["decision"] \in Decisions

\* C10: a numeric confidence_score below the threshold gives a successful
\* result (validation_status success, no 'error' key) with a warning, and the
\* four answer fields as the model produced them.
C10_LowConfidenceNonFatal ==
    LET obj == JsonLoads(JsonString(ptext)).obj
    IN  (/\ pfn = "dynamic"
         /\ Decodable(ptext)
         /\ "confidence_score" \in DOMAIN obj
         /\ Float(obj["confidence_score"]).ok
         /\ Float(obj["confidence_score"]).val < pthr) =>
            /\ pout["validation_status"] = "success"
            /\ "error" \notin DOMAIN pout
            /\ "warning" \in DOMAIN pout
            /\ \A k \in RequiredFields \cap DOMAIN obj : pout[k] = obj[k]

\* C13: the retriever's k is min(5, number of indexed chunks), and in every
\* successful response chunks_retrieved <= k <= chunks_processed, with
\* chunks_processed <= max_chunks when max_chunks is positive.
C13_RetrievalClamped ==
    /\ IndexBuilt =>
          retriever_k = (IF Len(index) < RetrieverK THEN Len(index) ELSE RetrieverK)
    /\ Done =>
          LET st == result["processing_statistics"]
          IN  /\ st.chunks_retrieved <= retriever_k
              /\ retriever_k <= st.chunks_processed
              /\ st.chunks_processed = Len(index)
              /\ opts.max_chunks > 0 => st.chunks_processed <= opts.max_chunks

C13_Witness ==
    /\ Done
    /\ Len(index) = 6
    /\ retriever_k = 5
    /\ result["processing_statistics"].chunks_retrieved = 5

\* C18: a returned result has the key 'error' exactly when the pipeline
\* failed, whatever keys the model put into its object.
C18_ErrorKeyIffFailed ==
    (outcome = "returned") => (("error" \in DOMAIN result) <=> (failed_at # ""))

AssemblyKeys == {"source_documents", "document_metadata",
                 "processing_statistics", "query_metadata"}

\* the query a returned result was made for
ResultQuery(res) ==
    IF "query_metadata" \in DOMAIN res THEN res["query_metadata"].original_query
    ELSE res["query"]

\* C11: one batch builds the index at most once, however many queries it has.
C11_IndexBuiltOncePerBatch == index_builds <= 1

\* C12 as stated: a successful response holds every decoded answer field with
\* the model's value, the retrieved chunks, the processing metadata and the
\* original query, for every include_metadata.
C12_ResponseFullyPopulated ==
    Done =>
        LET obj == JsonLoads(JsonString(response_content)).obj
        IN  /\ \A k \in (DOMAIN obj) \ {"warning", "validation_status"} :
                  result[k] = obj[k]
            /\ result["source_documents"] = retrieved_docs
            /\ result["processing_statistics"].chunks_processed = Len(chunks)
            /\ result["processing_statistics"].chunks_retrieved = Len(retrieved_docs)
            /\ result["query_metadata"].original_query = query

\* C12 amended: a successful response holds every decoded answer field with
\* the model's value except a field named like a key the assembly writes; the
\* retrieved chunks when include_metadata is true and an empty list when it
\* is false; the processing statistics, the timestamp and the original query.
C12_ResponsePopulatedPerOption ==
    Done =>
        LET obj == JsonLoads(JsonString(response_content)).obj
        IN  /\ \A k \in (DOMAIN obj) \ (AssemblyKeys \cup {"warning", "validation_status"}) :
                  k \in DOMAIN result /\ result[k] = obj[k]
            /\ result["source_documents"] =
                  (IF opts.include_metadata THEN retrieved_docs ELSE <<>>)
            /\ result["processing_statistics"].chunks_processed = Len(chunks)
            /\ result["processing_statistics"].chunks_retrieved = Len(retrieved_docs)
            /\ "processing_time_seconds" \in DOMAIN result["processing_statistics"]
            /\ "timestamp" \in DOMAIN result["query_metadata"]
            /\ result["query_metadata"].original_query = query

C12_Witness ==
    /\ Done
    /\ ~opts.include_metadata
    /\ retrieved_docs # <<>>
    /\ result["source_documents"] = <<>>
    /\ response_content = <<"x", "{", "ans", "src", "}">>
    /\ result["decision"] = "yes"

C17_OneResultPerQuery ==
    (bpc \in {"returned", "raised"}) =>
        /\ bpc = "returned"
        /\ Len(results) = Len(bqueries)
        /\ \A i \in 1..Len(results) : ResultQuery(results[i]) = bqueries[i]

\* main has opened the store its retriever queries
MainRetrieves == apc \in {"answer", "done"}

\* C14: main skips loading and uses the persisted index exactly when that
\* index was persisted for the documents now under the data path; it never
\* answers from an index persisted for other documents.
C14_CacheKeyedByDocuments ==
    (MainRetrieves /\ app_loaded.skipped) => app_store = data_docs

\* C16: when main starts without a persisted store, the store its retriever
\* queries holds the chunks of the documents it loaded; when a store exists,
\* loading is skipped and that store is queried.
C16_StoreCreatedBeforeRetrieval ==
    MainRetrieves =>
        /\ ~app_loaded.skipped => app_store = app_loaded.docs
        /\ app_loaded.skipped => (app_loaded.docs = {} /\ app_store = db_docs)

====
